---- MODULE Spec2Model ----
(***************************************************************************)
(* Expression matchers of the output-consistency ignore filter             *)
(* (materialize/output_consistency/ignore_filter/expression_matchers.py).  *)
(*                                                                         *)
(* Expressions are records tagged with their class.  A call of a matcher   *)
(* yields an outcome: a returned boolean or a raised exception.            *)
(***************************************************************************)
EXTENDS Integers, Sequences, FiniteSets, TLC

\* ------------------------------------------------------------------ bounds
\* Largest number of nodes of the expression handed to a single matcher.
MaxExprNodes == 3
\* Largest number of nodes (roots and arguments together) of a query.
MaxQueryNodes == 5
\* A visit count stops growing at this value.
MaxVisits == 2

\* ------------------------------------------------------------ python values
Return(b) == [raised |-> "None", value |-> b]

Raise(e) == [raised |-> e, value |-> FALSE]

\* `not o`: an exception raised while evaluating o propagates.
PyNot(o) == IF o.raised # "None" THEN o ELSE Return(~o.value)

\* `a and b`: b is evaluated only when a returned a true value.
PyAnd(a, b) == IF a.raised # "None" \/ ~a.value THEN a ELSE b

\* `a or b`: b is evaluated only when a returned a false value.
PyOr(a, b) == IF a.raised # "None" \/ a.value THEN a ELSE b

isinstance(obj, cls) == obj.cls = cls

\* ------------------------------------------------------------------- names
\* Names are sequences of ASCII codes, so that letter case is observable.
round == <<114, 111, 117, 110, 100>>

Round == <<82, 111, 117, 110, 100>>

abs == <<97, 98, 115>>

\* str.lower() on ASCII text.
lower(s) == [i \in 1..Len(s) |-> IF s[i] \in 65..90 THEN s[i] + 32 ELSE s[i]]

\* Names a function may be declared with, and names a caller may ask for.
DeclaredNames == {round, Round, abs}

Patterns == {"$ + $", "$ || $"}

\* -------------------------------------------------------------- data model
\* DbFunction.__init__ stores the name in lower case.
DbFunction(function_name) ==
    [cls |-> "DbFunction", function_name_in_lower_case |-> lower(function_name)]

DbOperation(pattern) == [cls |-> "DbOperation", pattern |-> pattern]

LeafExpression == [cls |-> "LeafExpression"]

ExpressionWithArgs(operation, args) ==
    [cls |-> "ExpressionWithArgs", operation |-> operation, args |-> args]

is_leaf(expression) == isinstance(expression, "LeafExpression")

Operations ==
    {DbFunction(n) : n \in DeclaredNames} \cup {DbOperation(p) : p \in {"$ + $"}}

\* ForestsOfSize[z, m]: the sequences of expressions with m nodes in total;
\* z tells whether an ExpressionWithArgs may have an empty argument list.
ForestsOfSize[z \in BOOLEAN, m \in 0..(MaxExprNodes + MaxQueryNodes)] ==
    IF m = 0 THEN {<<>>}
    ELSE UNION {
           LET firsts ==
                 (IF k = 1 THEN {LeafExpression} ELSE {})
                   \cup (IF k > 1 \/ z
                         THEN {ExpressionWithArgs(op, a) :
                                 op \in Operations, a \in ForestsOfSize[z, k - 1]}
                         ELSE {})
           IN  {<<t>> \o rest : t \in firsts, rest \in ForestsOfSize[z, m - k]}
           : k \in 1..m }

\* The expressions a matcher is called with.
Expressions ==
    UNION {{f[1] : f \in {g \in ForestsOfSize[TRUE, k] : Len(g) = 1}}
             : k \in 1..MaxExprNodes}

\* The queries: forests of root expressions.
Queries == UNION {ForestsOfSize[FALSE, k] : k \in 0..MaxQueryNodes}

\* ------------------------------------------------------------ node matchers
\* Mutant: the name is compared without regard to letter case.
matches_fun_by_name_ignoring_case(expression, function_name_in_lower_case) ==
    IF isinstance(expression, "ExpressionWithArgs")
         /\ isinstance(expression.operation, "DbFunction")
    THEN Return(expression.operation.function_name_in_lower_case
                  = lower(function_name_in_lower_case))
    ELSE Return(FALSE)

\* Mutant: the operation's name is read without testing the variants first.
matches_fun_by_name_unguarded(expression, function_name_in_lower_case) ==
    IF "operation" \in DOMAIN expression
         /\ "function_name_in_lower_case" \in DOMAIN expression.operation
    THEN Return(expression.operation.function_name_in_lower_case
                  = function_name_in_lower_case)
    ELSE Raise("AttributeError")

matches_fun_by_name(expression, function_name_in_lower_case) ==
    IF isinstance(expression, "ExpressionWithArgs")
         /\ isinstance(expression.operation, "DbFunction")
    THEN Return(expression.operation.function_name_in_lower_case
                  = function_name_in_lower_case)
    ELSE Return(FALSE)

\* Mutant: any operator matches, whatever its pattern.
matches_op_by_pattern_any_pattern(expression, pattern) ==
    IF isinstance(expression, "ExpressionWithArgs")
         /\ isinstance(expression.operation, "DbOperation")
    THEN Return(TRUE)
    ELSE Return(FALSE)

matches_op_by_pattern(expression, pattern) ==
    IF isinstance(expression, "ExpressionWithArgs")
         /\ isinstance(expression.operation, "DbOperation")
    THEN Return(expression.operation.pattern = pattern)
    ELSE Return(FALSE)

\* The loop `for arg in expression.args`, from position i on.
RECURSIVE only_plain_from(_, _)
only_plain_from(args, i) ==
    IF i > Len(args) THEN Return(TRUE)
    ELSE IF ~is_leaf(args[i]) THEN Return(FALSE)
    ELSE only_plain_from(args, i + 1)

\* Mutant: only the first argument is inspected.
matches_expression_with_only_plain_arguments_first_only(expression) ==
    IF isinstance(expression, "ExpressionWithArgs")
         /\ Len(expression.args) > 0 /\ ~is_leaf(expression.args[1])
    THEN Return(FALSE)
    ELSE Return(TRUE)

matches_expression_with_only_plain_arguments(expression) ==
    IF isinstance(expression, "ExpressionWithArgs")
    THEN only_plain_from(expression.args, 1)
    ELSE Return(TRUE)

\* Mutant: the negation is dropped.
matches_nested_expression_no_negation(expression) ==
    matches_expression_with_only_plain_arguments(expression)

matches_nested_expression(expression) ==
    PyNot(matches_expression_with_only_plain_arguments(expression))

\* ------------------------------------------------------- matcher combinators
\* functools.partial(func, **keywords); a bare function is a partial without
\* keywords.
partial(func, keywords) == [func |-> func, keywords |-> keywords]

NoKeywords == <<>>

RECURSIVE Call(_, _)

matches_x_or_y(expression, x, y) ==
    PyOr(Call(x, expression), Call(y, expression))

\* Mutant: the conjunction is computed as a disjunction.
matches_x_and_y_as_or(expression, x, y) ==
    PyOr(Call(x, expression), Call(y, expression))

matches_x_and_y(expression, x, y) ==
    PyAnd(Call(x, expression), Call(y, expression))

\* Calling a matcher value with the one positional argument that is left.
Call(matcher, expression) ==
    CASE matcher.func = "matches_fun_by_name" ->
           matches_fun_by_name(expression,
                               matcher.keywords.function_name_in_lower_case)
      [] matcher.func = "matches_op_by_pattern" ->
           matches_op_by_pattern(expression, matcher.keywords.pattern)
      [] matcher.func = "matches_expression_with_only_plain_arguments" ->
           matches_expression_with_only_plain_arguments(expression)
      [] matcher.func = "matches_nested_expression" ->
           matches_nested_expression(expression)
      [] matcher.func = "matches_x_or_y" ->
           matches_x_or_y(expression, matcher.keywords.x, matcher.keywords.y)
      [] matcher.func = "matches_x_and_y" ->
           matches_x_and_y(expression, matcher.keywords.x, matcher.keywords.y)

\* --------------------------------------------------------- query traversal
\* The paths of the expressions below (and including) the one at path p.
RECURSIVE PathsUnder(_, _)
PathsUnder(expression, p) ==
    {p} \cup (IF isinstance(expression, "ExpressionWithArgs")
              THEN UNION {PathsUnder(expression.args[i], Append(p, i)) :
                            i \in 1..Len(expression.args)}
              ELSE {})

\* The expression of an expression tree at the rest of a path, from position i.
RECURSIVE Descend(_, _, _)
Descend(expression, p, i) ==
    IF i > Len(p) THEN expression ELSE Descend(expression.args[p[i]], p, i + 1)

\* The expression of the query at path p (p[1] is the index of the root).
ExpressionAt(query_template, p) == Descend(query_template[p[1]], p, 2)

\* The expressions QueryTemplate.matches_any_expression evaluates the
\* predicate over: the roots and, when check_recursively, transitively every
\* argument.
ReachableExpressions(query_template, check_recursively) ==
    IF check_recursively
    THEN UNION {PathsUnder(query_template[r], <<r>>) : r \in 1..Len(query_template)}
    ELSE {<<r>> : r \in 1..Len(query_template)}

\* Expression.matches / ExpressionWithArgs.matches in pre-order: the
\* expression itself, then its arguments from left to right, returning at the
\* first match.
RECURSIVE matches(_, _, _)
RECURSIVE any_matches(_, _, _, _)
matches(expression, predicate, apply_recursively) ==
    LET own == Call(predicate, expression)
    IN  IF own.raised # "None" \/ own.value THEN own
        ELSE IF apply_recursively /\ isinstance(expression, "ExpressionWithArgs")
        THEN any_matches(expression.args, 1, predicate, apply_recursively)
        ELSE Return(FALSE)

\* any(e.matches(predicate, recursively) for e in expressions), from position i.
any_matches(expressions, i, predicate, apply_recursively) ==
    IF i > Len(expressions) THEN Return(FALSE)
    ELSE LET m == matches(expressions[i], predicate, apply_recursively)
         IN  IF m.raised # "None" \/ m.value THEN m
             ELSE any_matches(expressions, i + 1, predicate, apply_recursively)

matches_any_expression(query_template, predicate, check_recursively) ==
    any_matches(query_template, 1, predicate, check_recursively)

\* ---------------------------------------------------------------- aggregator
\* Mutant: the two matchers are joined by matches_x_or_y.
at_least_one_invocation_predicate_or(function_name_in_lowercase) ==
    partial("matches_x_or_y",
            [x |-> partial("matches_fun_by_name",
                           [function_name_in_lower_case |-> function_name_in_lowercase]),
             y |-> partial("matches_nested_expression", NoKeywords)])

\* The predicate handed to matches_any_expression.
at_least_one_invocation_predicate(function_name_in_lowercase) ==
    partial("matches_x_and_y",
            [x |-> partial("matches_fun_by_name",
                           [function_name_in_lower_case |-> function_name_in_lowercase]),
             y |-> partial("matches_nested_expression", NoKeywords)])

\* Mutant: only the root expressions are searched.
check_recursively_argument_false == FALSE

\* The second argument of matches_any_expression.
check_recursively_argument == TRUE

is_function_invoked_only_with_non_nested_parameters(query_template, function_name_in_lowercase) ==
    PyNot(matches_any_expression(
            query_template,
            at_least_one_invocation_predicate(function_name_in_lowercase),
            check_recursively_argument))

\* -------------------------------------------------------------------- state
VARIABLES
    pc,                  \* "idle", "returned", "traversing" or "done"
    call,                \* the function called and its arguments
    outcome,             \* what the call returned or raised
    predicate,           \* traversal: the matcher evaluated on each expression
    stop_on_first_match, \* traversal: whether a match ends the traversal
    pending,             \* traversal: paths of the expressions still to visit
    visits,              \* traversal: how often each expression was visited
    any_match            \* traversal: whether an expression matched so far

vars == <<pc, call, outcome, predicate, stop_on_first_match, pending, visits,
          any_match>>

traversal_vars == <<predicate, stop_on_first_match, pending, visits, any_match>>

NoCall == [func |-> "none"]

Init ==
    /\ pc = "idle"
    /\ call = NoCall
    /\ outcome = Return(FALSE)
    /\ predicate = partial("none", NoKeywords)
    /\ stop_on_first_match = TRUE
    /\ pending = {}
    /\ visits = <<>>
    /\ any_match = Return(FALSE)

\* The matchers a combinator is given for x and y.
Matchers ==
    {partial("matches_fun_by_name", [function_name_in_lower_case |-> round]),
     partial("matches_op_by_pattern", [pattern |-> "$ + $"]),
     partial("matches_expression_with_only_plain_arguments", NoKeywords),
     partial("matches_nested_expression", NoKeywords)}

Call_matches_fun_by_name ==
    /\ pc = "idle"
    /\ \E e \in Expressions, n \in DeclaredNames :
         /\ call' = [func |-> "matches_fun_by_name", expression |-> e,
                     function_name_in_lower_case |-> n]
         /\ outcome' = matches_fun_by_name(e, n)
    /\ pc' = "returned"
    /\ UNCHANGED traversal_vars

Call_matches_op_by_pattern ==
    /\ pc = "idle"
    /\ \E e \in Expressions, p \in Patterns :
         /\ call' = [func |-> "matches_op_by_pattern", expression |-> e,
                     pattern |-> p]
         /\ outcome' = matches_op_by_pattern(e, p)
    /\ pc' = "returned"
    /\ UNCHANGED traversal_vars

Call_matches_expression_with_only_plain_arguments ==
    /\ pc = "idle"
    /\ \E e \in Expressions :
         /\ call' = [func |-> "matches_expression_with_only_plain_arguments",
                     expression |-> e]
         /\ outcome' = matches_expression_with_only_plain_arguments(e)
    /\ pc' = "returned"
    /\ UNCHANGED traversal_vars

Call_matches_nested_expression ==
    /\ pc = "idle"
    /\ \E e \in Expressions :
         /\ call' = [func |-> "matches_nested_expression", expression |-> e]
         /\ outcome' = matches_nested_expression(e)
    /\ pc' = "returned"
    /\ UNCHANGED traversal_vars

Call_matches_x_or_y ==
    /\ pc = "idle"
    /\ \E e \in Expressions, x \in Matchers, y \in Matchers :
         /\ call' = [func |-> "matches_x_or_y", expression |-> e, x |-> x, y |-> y]
         /\ outcome' = matches_x_or_y(e, x, y)
    /\ pc' = "returned"
    /\ UNCHANGED traversal_vars

Call_matches_x_and_y ==
    /\ pc = "idle"
    /\ \E e \in Expressions, x \in Matchers, y \in Matchers :
         /\ call' = [func |-> "matches_x_and_y", expression |-> e, x |-> x, y |-> y]
         /\ outcome' = matches_x_and_y(e, x, y)
    /\ pc' = "returned"
    /\ UNCHANGED traversal_vars

\* The function the aggregator is asked about.  The queries call this function
\* and another one, so asking about the other one adds no behaviour.
AskedNames == {round}

\* The predicate is built and the traversal of the query set up; s tells
\* whether the traversal ends at the first match.
Begin(s) ==
    /\ pc = "idle"
    /\ \E q \in Queries, f \in AskedNames :
         /\ call' = [func |-> "is_function_invoked_only_with_non_nested_parameters",
                     query_template |-> q, function_name_in_lowercase |-> f]
         /\ predicate' = at_least_one_invocation_predicate(f)
         /\ pending' = ReachableExpressions(q, check_recursively_argument)
         /\ visits' = [p \in ReachableExpressions(q, TRUE) |-> 0]
    /\ stop_on_first_match' = s
    /\ any_match' = Return(FALSE)
    /\ pc' = "traversing"
    /\ UNCHANGED outcome

\* Lines 77-87: the query is asked for any match of the predicate; it answers
\* at the first match.
Invoke == Begin(TRUE)

\* The same call on a query that evaluates the predicate on every expression
\* before it answers.
InvokeVisitingAll == Begin(FALSE)

\* Mutant: a visited expression stays among those to visit.
VisitedPending_kept(p) == pending

\* What is left to visit once the expression at p has been visited.
VisitedPending(p) == pending \ {p}

\* Mutant: the expression visited last decides.
Accumulate_last(so_far, o) == o

\* any(): one match (or one exception) is enough.
Accumulate(so_far, o) == IF o.raised # "None" \/ o.value THEN o ELSE so_far

\* The traversal evaluates the predicate on one more expression.
Visit ==
    /\ pc = "traversing"
    /\ \E p \in pending :
         LET o == Call(predicate, ExpressionAt(call.query_template, p))
         IN  /\ visits' = [visits EXCEPT ![p] = IF @ < MaxVisits THEN @ + 1 ELSE @]
             /\ any_match' = Accumulate(any_match, o)
             /\ pending' = IF o.raised # "None" \/ (o.value /\ stop_on_first_match)
                           THEN {}
                           ELSE VisitedPending(p)
    /\ UNCHANGED <<pc, call, outcome, predicate, stop_on_first_match>>

\* Line 88: the answer of the traversal is negated and returned.
ReturnResult ==
    /\ pc = "traversing"
    /\ pending = {}
    /\ outcome' = PyNot(any_match)
    /\ pc' = "done"
    /\ UNCHANGED <<call, traversal_vars>>

Next ==
    \/ Call_matches_fun_by_name
    \/ Call_matches_op_by_pattern
    \/ Call_matches_expression_with_only_plain_arguments
    \/ Call_matches_nested_expression
    \/ Call_matches_x_or_y
    \/ Call_matches_x_and_y
    \/ Invoke
    \/ InvokeVisitingAll
    \/ Visit
    \/ ReturnResult

Spec == Init /\ [][Next]_vars

\* The evaluation of the aggregator alone.
NextAggregator == Invoke \/ Visit \/ ReturnResult

\* The evaluation is a running computation: it keeps taking steps.
FairSpec ==
    Init /\ [][NextAggregator]_vars /\ WF_vars(Visit) /\ WF_vars(ReturnResult)

\* ------------------------------------------------------------- vocabulary
IsComposite(e) == e.cls = "ExpressionWithArgs"

\* At least one immediate argument of e is itself composite.
HasCompositeArgument(e) ==
    IsComposite(e) /\ \E i \in 1..Len(e.args) : IsComposite(e.args[i])

\* e is a call of the function stored under the name f.
IsCallOf(e, f) ==
    /\ IsComposite(e)
    /\ e.operation.cls = "DbFunction"
    /\ e.operation.function_name_in_lower_case = f

\* Every expression of the query: the roots and all arguments at any depth.
AllPaths(q) == UNION {PathsUnder(q[r], <<r>>) : r \in 1..Len(q)}

AllExpressions(q) == {ExpressionAt(q, p) : p \in AllPaths(q)}

Returned(func) == pc = "returned" /\ call.func = func

AggregatorDone ==
    pc = "done" /\ call.func = "is_function_invoked_only_with_non_nested_parameters"

round_of_leaf == ExpressionWithArgs(DbFunction(round), <<LeafExpression>>)

abs_of_leaf == ExpressionWithArgs(DbFunction(abs), <<LeafExpression>>)

round_of_abs == ExpressionWithArgs(DbFunction(round), <<abs_of_leaf>>)

abs_of_abs == ExpressionWithArgs(DbFunction(abs), <<abs_of_leaf>>)

\* ------------------------------------------------------------------- claims
\* C1: the aggregator returns true exactly when no expression reachable from
\* the query's roots is a call of the function with a composite immediate
\* argument; round(1.5) together with round(abs(-1.5)) gives false for
\* "round", round(1.5) alone gives true.
C1_TrueIffNoNestedInvocation ==
    AggregatorDone =>
        LET q == call.query_template
            f == call.function_name_in_lowercase
        IN  /\ outcome = Return(~\E e \in AllExpressions(q) :
                                   IsCallOf(e, f) /\ HasCompositeArgument(e))
            /\ (q = <<round_of_leaf, round_of_abs>> /\ f = round)
                 => outcome = Return(FALSE)
            /\ (q = <<round_of_leaf>> /\ f = round) => outcome = Return(TRUE)

C1_Witness ==
    /\ AggregatorDone
    /\ call.query_template = <<round_of_leaf, round_of_abs>>
    /\ call.function_name_in_lowercase = round
    /\ outcome = Return(FALSE)

\* C2: when no reachable expression is a call of the function (the empty
\* query, or only calls of other functions, nested or not), the aggregator
\* returns true.
C2_TrueWhenFunctionAbsent ==
    (AggregatorDone
       /\ \A e \in AllExpressions(call.query_template) :
            ~IsCallOf(e, call.function_name_in_lowercase))
      => outcome = Return(TRUE)

C2_Witness ==
    /\ AggregatorDone
    /\ call.query_template = <<abs_of_abs>>
    /\ call.function_name_in_lowercase = round
    /\ outcome = Return(TRUE)

\* C3: matches_nested_expression is the negation of
\* matches_expression_with_only_plain_arguments: it is true exactly for a
\* composite with at least one composite immediate argument.
C3_NestedIsNegationOfPlain ==
    Returned("matches_nested_expression") =>
        /\ outcome = Return(HasCompositeArgument(call.expression))
        /\ outcome.value
             = ~matches_expression_with_only_plain_arguments(call.expression).value

C3_Witness ==
    /\ Returned("matches_nested_expression")
    /\ IsComposite(call.expression)
    /\ Len(call.expression.args) = 2
    /\ ~IsComposite(call.expression.args[1])
    /\ IsComposite(call.expression.args[2])
    /\ outcome = Return(TRUE)

\* C4: matches_fun_by_name is true exactly for a composite whose operation is
\* a function stored under exactly the given name; false for a leaf, for an
\* operator, and for a name that differs from the stored one in letter case.
C4_FunByNameExact ==
    Returned("matches_fun_by_name") =>
        LET e == call.expression
            n == call.function_name_in_lower_case
        IN  /\ outcome = Return(IsCallOf(e, n))
            /\ ~IsComposite(e) => outcome = Return(FALSE)
            /\ (IsComposite(e) /\ e.operation.cls = "DbOperation")
                 => outcome = Return(FALSE)
            /\ (IsCallOf(e, lower(n)) /\ n # lower(n)) => outcome = Return(FALSE)

C4_Witness ==
    /\ Returned("matches_fun_by_name")
    /\ IsCallOf(call.expression, round)
    /\ call.function_name_in_lower_case = Round
    /\ outcome = Return(FALSE)

\* C5: matches_op_by_pattern is true exactly for a composite whose operation
\* is an operator with exactly the given pattern; false for a leaf and for a
\* function.
C5_OpByPatternExact ==
    Returned("matches_op_by_pattern") =>
        LET e == call.expression
        IN  /\ outcome = Return(/\ IsComposite(e)
                                /\ e.operation.cls = "DbOperation"
                                /\ e.operation.pattern = call.pattern)
            /\ ~IsComposite(e) => outcome = Return(FALSE)
            /\ (IsComposite(e) /\ e.operation.cls = "DbFunction")
                 => outcome = Return(FALSE)

C5_Witness ==
    /\ Returned("matches_op_by_pattern")
    /\ IsComposite(call.expression)
    /\ call.expression.operation = DbOperation("$ + $")
    /\ call.pattern = "$ + $"
    /\ outcome = Return(TRUE)

\* Which of e's immediate arguments are leaves, and whether e is one.
KindShape(e) ==
    [leaf |-> ~IsComposite(e),
     args |-> IF IsComposite(e)
              THEN [i \in 1..Len(e.args) |-> ~IsComposite(e.args[i])]
              ELSE <<>>]

\* C6: matches_expression_with_only_plain_arguments is true for a leaf, and
\* for a composite exactly when every immediate argument is a leaf; nothing
\* below the immediate arguments matters.
C6_PlainIsShallow ==
    Returned("matches_expression_with_only_plain_arguments") =>
        LET e == call.expression
        IN  /\ outcome = Return(~IsComposite(e)
                                  \/ \A i \in 1..Len(e.args) : ~IsComposite(e.args[i]))
            /\ \A e2 \in Expressions :
                 KindShape(e2) = KindShape(e)
                   => matches_expression_with_only_plain_arguments(e2) = outcome

C6_Witness ==
    /\ Returned("matches_expression_with_only_plain_arguments")
    /\ IsComposite(call.expression)
    /\ Len(call.expression.args) = 2
    /\ ~IsComposite(call.expression.args[1])
    /\ IsComposite(call.expression.args[2])
    /\ outcome = Return(FALSE)

\* C7: matches_x_and_y is the conjunction and matches_x_or_y the disjunction
\* of what the two matchers return for the expression.
C7_CombinatorsAreAndOr ==
    /\ Returned("matches_x_and_y") =>
         outcome = Return(Call(call.x, call.expression).value
                            /\ Call(call.y, call.expression).value)
    /\ Returned("matches_x_or_y") =>
         outcome = Return(Call(call.x, call.expression).value
                            \/ Call(call.y, call.expression).value)

C7_Witness ==
    /\ Returned("matches_x_and_y")
    /\ Call(call.x, call.expression) = Return(TRUE)
    /\ Call(call.y, call.expression) = Return(FALSE)
    /\ outcome = Return(FALSE)

NodeMatchers ==
    {"matches_fun_by_name", "matches_op_by_pattern",
     "matches_expression_with_only_plain_arguments", "matches_nested_expression"}

\* C8: every node matcher returns a boolean and raises nothing, whatever the
\* variant of the expression and of its operation; for a leaf the matchers
\* return false, false, true and false.
C8_MatchersTotal ==
    (pc = "returned" /\ call.func \in NodeMatchers) =>
        /\ outcome.raised = "None"
        /\ outcome.value \in BOOLEAN
        /\ ~IsComposite(call.expression) =>
             outcome.value
               = (call.func = "matches_expression_with_only_plain_arguments")

C8_Witness ==
    /\ Returned("matches_fun_by_name")
    /\ call.expression = LeafExpression
    /\ outcome = Return(FALSE)

\* C9: the evaluation of the aggregator terminates with a result and visits
\* no reachable expression more than once.
C9_TerminatesVisitingOnce ==
    /\ [](pc \in {"traversing", "done"}
            => \A p \in DOMAIN visits : visits[p] <= 1)
    /\ (pc = "traversing") ~> (pc = "done")

C9_Witness ==
    /\ AggregatorDone
    /\ Len(call.query_template) = 2
    /\ \E p \in DOMAIN visits : Len(p) = 3 /\ visits[p] = 1
    /\ \A p \in DOMAIN visits : visits[p] = 1

\* C10: whatever the order of the visits, and whether or not the traversal
\* stops at the first match, the result is that of the pre-order traversal
\* that returns at the first match.
C10_OrderAndEarlyExitIrrelevant ==
    AggregatorDone =>
        outcome = is_function_invoked_only_with_non_nested_parameters(
                      call.query_template, call.function_name_in_lowercase)

C10_Witness ==
    /\ AggregatorDone
    /\ ~stop_on_first_match
    /\ call.query_template = <<round_of_abs, round_of_leaf>>
    /\ call.function_name_in_lowercase = round
    /\ \A p \in DOMAIN visits : visits[p] = 1
    /\ outcome = Return(FALSE)

====
